---- MODULE Spec2Model ----
(***************************************************************************)
(* Model of finalproject_visdat.py: a Streamlit script that loads a        *)
(* spreadsheet through a memoised loader, cleans it at module level, and   *)
(* computes a fixed set of aggregates that feed the charts.  Streamlit     *)
(* runs the whole script again, in a fresh namespace, on every widget      *)
(* interaction; only the st.cache_data memo and the widget values survive  *)
(* a rerun.                                                                *)
(*                                                                         *)
(* Numbers.  Year cells are float64 in the program.  Here a number is a    *)
(* fixed-point integer counting halves (n stands for n/2), which keeps the *)
(* median of an even count of whole numbers exact.  The spreadsheets that  *)
(* are enumerated hold whole numbers only (even counts of halves).         *)
(*                                                                         *)
(* Areas.  small_area is a string; groupby orders its keys                 *)
(* lexicographically.  An area is modelled by its rank in that order       *)
(* (1, 2, ...); NoArea is a blank cell.                                    *)
(***************************************************************************)
EXTENDS Integers, Sequences, FiniteSets, TLC

VARIABLES
    raw,            \* the spreadsheet behind the Drive URL (never written)
    sort_ties,      \* how this build's default sort orders equal keys
    cache,          \* st.cache_data memo of load_data(): <<>> or <<table>>
    pc,             \* position of the script run
    runs,           \* script runs started in this session
    fetches,        \* times the body of load_data ran (download + read)
    cleanings,      \* times the CLEANING block ran
    selected_year,  \* sidebar selectbox value
    selected_type,  \* sidebar radio value
    df,             \* the script's table
    air_total, noise_total,
    air_top5, noise_top5,
    corr,
    area_total, fig_bar,
    df_years,
    before_after_df,
    map_df,
    prev            \* what the previous run displayed, and for which selection

widgets == <<selected_year, selected_type>>
outputs == <<air_total, noise_total, air_top5, noise_top5, corr, area_total,
             fig_bar, df_years, before_after_df, map_df>>
vars == <<raw, sort_ties, cache, pc, runs, fetches, cleanings, widgets, df,
          outputs, prev>>

----------------------------------------------------------------------------
(* Bounds of the exploration *)

MaxRows == 2
MaxAreas == 6
MaxRuns == 2

----------------------------------------------------------------------------
(* Schema *)

\* tahun_cols = [str(y) for y in range(2025, 2051)], cut down to the two
\* boundary years the before/after block names and the default selection.
tahun_cols == <<"2025", "2035", "2050">>

YearLabels == {tahun_cols[j] : j \in 1..Len(tahun_cols)}

\* int(y) of a column label
YearInt(y) == CASE y = "2025" -> 2025 [] y = "2035" -> 2035 [] y = "2050" -> 2050

\* a missing numeric cell
NaN == -1

\* a blank small_area cell
NoArea == 0

Recognized == {"air_quality", "noise"}

\* the values of co-benefit_type that occur, in the order groupby sorts them
TypeOrder == <<"air_quality", "noise", "traffic">>

----------------------------------------------------------------------------
(* Sequence helpers *)

Range(s) == {s[i] : i \in 1..Len(s)}

\* .sum(min_count=1): the sum of nothing is missing
RECURSIVE SumSeqMinCount(_)
SumSeqMinCount(s) ==
    IF Len(s) = 0 THEN NaN
    ELSE s[1] + (IF Len(s) = 1 THEN 0 ELSE SumSeqMinCount(SubSeq(s, 2, Len(s))))

\* Series.sum(): missing cells are skipped by its callers, the empty sum is 0
RECURSIVE SumSeq(_)
SumSeq(s) == IF Len(s) = 0 THEN 0 ELSE s[1] + SumSeq(SubSeq(s, 2, Len(s)))

MinOf(S) == CHOOSE x \in S : \A y \in S : x <= y
MaxOf(S) == CHOOSE x \in S : \A y \in S : x >= y

RECURSIVE Ascending(_)
Ascending(S) == IF S = {} THEN <<>> ELSE <<MinOf(S)>> \o Ascending(S \ {MinOf(S)})

Without(s, i) == SubSeq(s, 1, i - 1) \o SubSeq(s, i + 1, Len(s))

----------------------------------------------------------------------------
(* CLEANING, lines 106-109 *)

\* the filter line left out
FilterTypesKeepAll(t) == t

\* df[df['co-benefit_type'].isin(['air_quality', 'noise'])]
FilterTypes(t) == SelectSeq(t, LAMBDA r : r.cobenefit_type \in Recognized)

\* df.drop_duplicates(): keep the first of equal rows (missing cells compare equal)
DropDuplicates(t) ==
    LET F[i \in 0..Len(t)] ==
            IF i = 0 THEN <<>>
            ELSE IF \E j \in 1..(i - 1) : t[j] = t[i] THEN F[i - 1]
            ELSE Append(F[i - 1], t[i])
    IN F[Len(t)]

\* the present cells of one column
Present(t, y) ==
    LET cells == [i \in 1..Len(t) |-> t[i].vals[y]]
    IN SelectSeq(cells, LAMBDA c : c # NaN)

\* k-th smallest of a non-empty sequence
Kth(s, k) ==
    CHOOSE v \in Range(s) :
        /\ Cardinality({i \in 1..Len(s) : s[i] < v}) < k
        /\ k <= Cardinality({i \in 1..Len(s) : s[i] <= v})

\* Series.median(), skipna: NaN for a column with no present cell
Median(s) ==
    LET n == Len(s)
    IN IF n = 0 THEN NaN
       ELSE IF n % 2 = 1 THEN Kth(s, (n + 1) \div 2)
       ELSE (Kth(s, n \div 2) + Kth(s, n \div 2 + 1)) \div 2

\* df[num_cols].fillna(df[num_cols].median())
Fillna(t) ==
    LET med == [y \in YearLabels |-> Median(Present(t, y))]
    IN [i \in 1..Len(t) |->
          [t[i] EXCEPT !.vals =
              [y \in YearLabels |-> IF t[i].vals[y] = NaN THEN med[y] ELSE t[i].vals[y]]]]

CleanTable(t) == Fillna(DropDuplicates(FilterTypes(t)))

----------------------------------------------------------------------------
(* Aggregation helpers *)

\* sums skip missing cells
Skipna(c) == IF c = NaN THEN 0 ELSE c

\* df[y].sum()
ColSum(t, y) == SumSeq([i \in 1..Len(t) |-> Skipna(t[i].vals[y])])

\* df[tahun_cols].sum(): one total per year column, in column order
YearSums(t) == [j \in 1..Len(tahun_cols) |-> ColSum(t, tahun_cols[j])]

\* df[df['co-benefit_type'] == c]
OfType(t, c) == SelectSeq(t, LAMBDA r : r.cobenefit_type = c)

\* df[...][tahun_cols].sum().sum()
KpiTotal(t, c) == SumSeq(YearSums(OfType(t, c)))

\* groupby('small_area'): keys ascending, rows with a blank key dropped
AreaKeys(t) == {t[i].small_area : i \in 1..Len(t)} \ {NoArea}

GroupRows(t, a) == SelectSeq(t, LAMBDA r : r.small_area = a)

\* .groupby('small_area')[tahun_cols].sum().sum(axis=1).reset_index(name=...)
AreaTotals(t) ==
    LET keys == Ascending(AreaKeys(t))
    IN [k \in 1..Len(keys) |->
          [small_area |-> keys[k],
           total      |-> SumSeq(YearSums(GroupRows(t, keys[k])))]]

\* which of several equal keys the sort puts first
PickTie(idx, ties) == IF ties = "stable" THEN MinOf(idx) ELSE MaxOf(idx)

\* ascending=False forgotten
RECURSIVE SortValuesAscending(_, _)
SortValuesAscending(s, ties) ==
    IF Len(s) = 0 THEN <<>>
    ELSE LET m == MinOf({s[i].total : i \in 1..Len(s)})
             p == PickTie({i \in 1..Len(s) : s[i].total = m}, ties)
         IN <<s[p]>> \o SortValuesAscending(Without(s, p), ties)

\* .sort_values(col, ascending=False) with the default kind
RECURSIVE SortValues(_, _)
SortValues(s, ties) ==
    IF Len(s) = 0 THEN <<>>
    ELSE LET m == MaxOf({s[i].total : i \in 1..Len(s)})
             p == PickTie({i \in 1..Len(s) : s[i].total = m}, ties)
         IN <<s[p]>> \o SortValues(Without(s, p), ties)

\* .head(n)
HeadRows(s, n) == SubSeq(s, 1, IF Len(s) < n THEN Len(s) ELSE n)

\* the n of air_top5 / noise_top5
TopAreas == 5

\* the n of fig_bar
TopCombined == 10

\* air_top5 / noise_top5
Top5(t, c, ties) == HeadRows(SortValues(AreaTotals(OfType(t, c)), ties), TopAreas)

\* df.groupby(['small_area', 'co-benefit_type'])[tahun_cols].sum().sum(axis=1)
\*   .reset_index(name="Total Value"): keys in (area, type) order
AreaTypeTotals(t) ==
    LET keys  == Ascending(AreaKeys(t))
        nt    == Len(TypeOrder)
        cand  == [k \in 1..(Len(keys) * nt) |->
                    <<keys[((k - 1) \div nt) + 1], TypeOrder[((k - 1) % nt) + 1]>>]
        rows(p) == SelectSeq(t, LAMBDA r : r.small_area = p[1] /\ r.cobenefit_type = p[2])
        present == SelectSeq(cand, LAMBDA p : Len(rows(p)) > 0)
    IN [k \in 1..Len(present) |->
          [small_area     |-> present[k][1],
           cobenefit_type |-> present[k][2],
           total          |-> SumSeq(YearSums(rows(present[k])))]]

\* area_total.sort_values("Total Value", ascending=False).head(10)
FigBar(tbl, ties) == HeadRows(SortValues(tbl, ties), TopCombined)

----------------------------------------------------------------------------
(* Correlation, line 268 *)

RECURSIVE GCD(_, _)
GCD(a, b) == IF b = 0 THEN a ELSE GCD(b, a % b)

\* One Pearson coefficient over the rows where both cells are present.
\* <<>> is NaN (no row, or a column without variance); otherwise
\* <<sign, p, q>> stands for sign * sqrt(p / q) with p / q in lowest terms.
CorrCell(t, x, y) ==
    LET both == SelectSeq(t, LAMBDA r : r.vals[x] # NaN /\ r.vals[y] # NaN)
        n    == Len(both)
        sx   == SumSeq([i \in 1..n |-> both[i].vals[x]])
        sy   == SumSeq([i \in 1..n |-> both[i].vals[y]])
        sxy  == SumSeq([i \in 1..n |-> both[i].vals[x] * both[i].vals[y]])
        sxx  == SumSeq([i \in 1..n |-> both[i].vals[x] * both[i].vals[x]])
        syy  == SumSeq([i \in 1..n |-> both[i].vals[y] * both[i].vals[y]])
        cov  == n * sxy - sx * sy
        vx   == n * sxx - sx * sx
        vy   == n * syy - sy * sy
        g    == GCD(cov * cov, vx * vy)
    IN IF n = 0 \/ vx * vy = 0 THEN <<>>
       ELSE <<IF cov > 0 THEN 1 ELSE IF cov < 0 THEN -1 ELSE 0,
              (cov * cov) \div g, (vx * vy) \div g>>

\* df[tahun_cols].corr()
Corr(t) == [x \in YearLabels |-> [y \in YearLabels |-> CorrCell(t, x, y)]]

----------------------------------------------------------------------------
(* Trend table and comfort zone, lines 318-325 and 404-412 *)

\* >= in place of >
AboveOrAtMean(v, s) == v * Len(s) >= SumSeq(s)

\* v > s.mean()
AboveMean(v, s) == v * Len(s) > SumSeq(s)

\* v < s.mean()
BelowMean(v, s) == v * Len(s) < SumSeq(s)

\* df_years with its "Comfort Zone" column
DfYears(t) ==
    LET air   == YearSums(OfType(t, "air_quality"))
        noise == YearSums(OfType(t, "noise"))
    IN [j \in 1..Len(tahun_cols) |->
          [Year    |-> YearInt(tahun_cols[j]),
           Air     |-> air[j],
           Noise   |-> noise[j],
           Comfort |-> IF AboveMean(air[j], air) /\ BelowMean(noise[j], noise)
                       THEN "Most Comfortable" ELSE "Other"]]

\* before_after_df, lines 351-362
BeforeAfter(t) ==
    <<[Indicator |-> "Air Quality Improvement", Year |-> "2025",
       TotalValue |-> ColSum(OfType(t, "air_quality"), "2025")],
      [Indicator |-> "Air Quality Improvement", Year |-> "2050",
       TotalValue |-> ColSum(OfType(t, "air_quality"), "2050")],
      [Indicator |-> "Noise Reduction", Year |-> "2025",
       TotalValue |-> ColSum(OfType(t, "noise"), "2025")],
      [Indicator |-> "Noise Reduction", Year |-> "2050",
       TotalValue |-> ColSum(OfType(t, "noise"), "2050")]>>

----------------------------------------------------------------------------
(* Map table, lines 442-451 *)

\* df[type == selected_type].groupby('small_area')[selected_year].sum().reset_index()
MapTable(t, c, y) ==
    LET g    == OfType(t, c)
        keys == Ascending(AreaKeys(g))
    IN [k \in 1..Len(keys) |->
          [small_area |-> keys[k], value |-> ColSum(GroupRows(g, keys[k]), y)]]

\* The ambient numpy generator: its state decides a whole draw.  A drawn
\* coordinate is kept as the half of the interval it falls in (0 or 1).
GeneratorStates == {0, 1}

\* np.random.uniform(low, high, n)
Uniform(n, g) == [i \in 1..n |-> (g + i) % 2]

WithCoordinates(tbl, g) ==
    LET lat == Uniform(Len(tbl), g)
        lon == Uniform(Len(tbl), g + Len(tbl) + 1)
    IN [k \in 1..Len(tbl) |->
          [small_area |-> tbl[k].small_area, value |-> tbl[k].value,
           lat |-> lat[k], lon |-> lon[k]]]

----------------------------------------------------------------------------
(* The script, one action per block *)

\* a fresh module namespace: nothing computed yet
FreshNamespace ==
    /\ df = <<>>
    /\ air_total = 0 /\ noise_total = 0
    /\ air_top5 = <<>> /\ noise_top5 = <<>>
    /\ corr = <<>>
    /\ area_total = <<>> /\ fig_bar = <<>>
    /\ df_years = <<>>
    /\ before_after_df = <<>>
    /\ map_df = <<>>

\* what a finished run put on the page
Displayed ==
    [selection       |-> widgets,
     air_total       |-> air_total,
     noise_total     |-> noise_total,
     air_top5        |-> air_top5,
     noise_top5      |-> noise_top5,
     corr            |-> corr,
     area_total      |-> area_total,
     fig_bar         |-> fig_bar,
     df_years        |-> df_years,
     before_after_df |-> before_after_df,
     map_df          |-> map_df]

NothingDisplayed ==
    [selection |-> <<>>, air_total |-> 0, noise_total |-> 0, air_top5 |-> <<>>,
     noise_top5 |-> <<>>, corr |-> <<>>, area_total |-> <<>>, fig_bar |-> <<>>,
     df_years |-> <<>>, before_after_df |-> <<>>, map_df |-> <<>>]

\* df = load_data(), lines 91-101: st.cache_data runs the body on a miss
\* and hands out a copy of the memoised frame on a hit
load_data ==
    /\ pc = "load"
    /\ IF cache = <<>>
       THEN /\ fetches' = fetches + 1
            /\ cache' = <<raw>>
            /\ df' = raw
       ELSE /\ df' = cache[1]
            /\ UNCHANGED <<fetches, cache>>
    /\ pc' = "clean"
    /\ UNCHANGED <<raw, sort_ties, runs, cleanings, widgets, outputs, prev>>

\* the cleaning written back into the memoised frame (a shared, mutable cache entry)
cleaning_in_place ==
    /\ pc = "clean"
    /\ df' = CleanTable(df)
    /\ cache' = <<CleanTable(df)>>
    /\ cleanings' = cleanings + 1
    /\ pc' = "aggregate"
    /\ UNCHANGED <<raw, sort_ties, runs, fetches, widgets, outputs, prev>>

\* CLEANING, lines 106-109: module-level statements, run by every script run
cleaning ==
    /\ pc = "clean"
    /\ df' = CleanTable(df)
    /\ cleanings' = cleanings + 1
    /\ pc' = "aggregate"
    /\ UNCHANGED <<raw, sort_ties, cache, runs, fetches, widgets, outputs, prev>>

\* KPI metrics to comfort zone, lines 172-412
aggregate ==
    /\ pc = "aggregate"
    /\ air_total' = KpiTotal(df, "air_quality")
    /\ noise_total' = KpiTotal(df, "noise")
    /\ air_top5' = Top5(df, "air_quality", sort_ties)
    /\ noise_top5' = Top5(df, "noise", sort_ties)
    /\ corr' = Corr(df)
    /\ area_total' = AreaTypeTotals(df)
    /\ fig_bar' = FigBar(AreaTypeTotals(df), sort_ties)
    /\ df_years' = DfYears(df)
    /\ before_after_df' = BeforeAfter(df)
    /\ pc' = "map"
    /\ UNCHANGED <<raw, sort_ties, cache, runs, fetches, cleanings, widgets, df,
                   map_df, prev>>

\* interactive map, lines 442-451
interactive_map ==
    /\ pc = "map"
    /\ \E g \in GeneratorStates :
          map_df' = WithCoordinates(MapTable(df, selected_type, selected_year), g)
    /\ pc' = "done"
    /\ UNCHANGED <<raw, sort_ties, cache, runs, fetches, cleanings, widgets, df,
                   air_total, noise_total, air_top5, noise_top5, corr, area_total,
                   fig_bar, df_years, before_after_df, prev>>

\* A widget interaction (lines 118-127), or the Rerun command: Streamlit runs
\* the script again from the top in a fresh namespace.  One interaction
\* changes at most one widget.
rerun ==
    /\ pc = "done"
    /\ runs < MaxRuns
    /\ \E y \in YearLabels, c \in Recognized :
          /\ y = selected_year \/ c = selected_type
          /\ selected_year' = y
          /\ selected_type' = c
    /\ prev' = Displayed
    /\ runs' = runs + 1
    /\ pc' = "load"
    /\ df' = <<>>
    /\ air_total' = 0 /\ noise_total' = 0
    /\ air_top5' = <<>> /\ noise_top5' = <<>>
    /\ corr' = <<>>
    /\ area_total' = <<>> /\ fig_bar' = <<>>
    /\ df_years' = <<>>
    /\ before_after_df' = <<>>
    /\ map_df' = <<>>
    /\ UNCHANGED <<raw, sort_ties, cache, fetches, cleanings>>

----------------------------------------------------------------------------
(* Spreadsheets *)

ProfileOf(s) ==
    [y \in YearLabels |-> s[CHOOSE j \in 1..Len(tahun_cols) : tahun_cols[j] = y]]

Row(a, c, p) == [small_area |-> a, cobenefit_type |-> c, vals |-> p]

TablesOver(R, n) == UNION {[1..k -> R] : k \in 0..n}

\* year rows of whole numbers 0, 1, 2 (in halves), one with a blank cell
YearProfiles ==
    {ProfileOf(<<0, 2, 4>>), ProfileOf(<<4, 0, 0>>), ProfileOf(<<2, 2, 2>>),
     ProfileOf(<<NaN, 2, 2>>)}

\* rows of the two recognized types, and rows of a third type in one area
DataRows ==
    {Row(a, c, p) : a \in {NoArea, 1, 2}, c \in Recognized, p \in YearProfiles}
    \cup {Row(2, "traffic", p) : p \in {ProfileOf(<<4, 0, 0>>), ProfileOf(<<NaN, 2, 2>>)}}

RankProfiles == {ProfileOf(<<0, 0, 0>>), ProfileOf(<<2, 0, 0>>), ProfileOf(<<0, 2, 2>>)}

\* one row per area, every row of the same type
RankTablesOf(n) ==
    {[a \in 1..n |-> Row(a, c, f[a])] : c \in Recognized, f \in [1..n -> RankProfiles]}

RankTables == UNION {RankTablesOf(n) : n \in 0..MaxAreas}

SessionRows ==
    {Row(a, c, p) : a \in {1, 2}, c \in Recognized,
                    p \in {ProfileOf(<<2, 2, 2>>), ProfileOf(<<NaN, 2, 2>>)}}

\* How equal keys come out of the default sort.  sort_values is called
\* without kind=, so the order of equal totals is whatever the build's
\* quicksort leaves: the group order ("stable") or not ("unstable").  It is
\* a function of the input, hence fixed for a session.
TieOrders == {"stable", "unstable"}

\* session start: defaults of the widgets (index=10 is "2035"; the first radio option)
SessionStart ==
    /\ sort_ties \in TieOrders
    /\ cache = <<>>
    /\ pc = "load"
    /\ runs = 1
    /\ fetches = 0
    /\ cleanings = 0
    /\ selected_year = "2035"
    /\ selected_type = "air_quality"
    /\ FreshNamespace
    /\ prev = NothingDisplayed

----------------------------------------------------------------------------
(* Specifications *)

\* a session with reruns over small spreadsheets
Init == raw \in TablesOver(SessionRows, MaxRows) /\ SessionStart

Next == load_data \/ cleaning \/ aggregate \/ interactive_map \/ rerun

Spec == Init /\ [][Next]_vars

\* one script run from a cold cache
NextRun == load_data \/ cleaning \/ aggregate \/ interactive_map

\* ... over spreadsheets with blank cells, blank areas and unrecognized types
InitData == raw \in TablesOver(DataRows, MaxRows) /\ SessionStart

SpecData == InitData /\ [][NextRun]_vars

\* ... over spreadsheets with more areas than the top-5 keeps
InitRank == raw \in RankTables /\ SessionStart

SpecRank == InitRank /\ [][NextRun]_vars

----------------------------------------------------------------------------
(* Properties *)

Cleaned == pc \in {"aggregate", "map", "done"}

\* the spreadsheet with the rows of unrecognized type struck out by hand
KeepRecognized(t) ==
    SelectSeq(t, LAMBDA r : r.cobenefit_type = "air_quality" \/ r.cobenefit_type = "noise")

\* the map table without its simulated coordinates
AreaValues(m) == [k \in 1..Len(m) |-> [small_area |-> m[k].small_area, value |-> m[k].value]]

\* sum of every year cell of the rows of area a and type c, cell by cell
CellTotal(t, a, c) ==
    SumSeq([i \in 1..Len(t) |->
        IF t[i].small_area = a /\ t[i].cobenefit_type = c
        THEN SumSeq([j \in 1..Len(tahun_cols) |-> Skipna(t[i].vals[tahun_cols[j]])])
        ELSE 0])

AreasOfType(t, c) ==
    {t[i].small_area : i \in {k \in 1..Len(t) : t[k].cobenefit_type = c}} \ {NoArea}

\* C1: a row whose co-benefit_type is not 'air_quality' or 'noise' is absent
\* from the cleaned table, changes no aggregate (for a sheet holding such
\* rows the table and every output are what they would be had the rows
\* never been in the sheet), and lends its area to no key of the per-area
\* tables.
C1_UnrecognizedDiscarded ==
    LET sheet == KeepRecognized(raw)
        t     == CleanTable(sheet)
        areas == {sheet[i].small_area : i \in 1..Len(sheet)}
    IN /\ Cleaned =>
            \A i \in 1..Len(df) : df[i].cobenefit_type \in {"air_quality", "noise"}
       /\ (Cleaned /\ sheet # raw) => df = t
       /\ (pc \in {"map", "done"} /\ sheet # raw) =>
            /\ air_total = KpiTotal(t, "air_quality")
            /\ noise_total = KpiTotal(t, "noise")
            /\ air_top5 = Top5(t, "air_quality", sort_ties)
            /\ noise_top5 = Top5(t, "noise", sort_ties)
            /\ corr = Corr(t)
            /\ area_total = AreaTypeTotals(t)
            /\ fig_bar = FigBar(AreaTypeTotals(t), sort_ties)
            /\ df_years = DfYears(t)
            /\ before_after_df = BeforeAfter(t)
            /\ \A k \in 1..Len(area_total) : area_total[k].small_area \in areas
            /\ \A k \in 1..Len(air_top5) : air_top5[k].small_area \in areas
            /\ \A k \in 1..Len(noise_top5) : noise_top5[k].small_area \in areas
       /\ (pc = "done" /\ sheet # raw) =>
            /\ AreaValues(map_df) = MapTable(t, selected_type, selected_year)
            /\ \A k \in 1..Len(map_df) : map_df[k].small_area \in areas

\* a finished run over a sheet with an unrecognized row whose area no
\* recognized row carries and whose value would have changed a median
C1_Witness ==
    /\ pc = "done"
    /\ \E i, j \in 1..Len(raw) :
          /\ raw[i].cobenefit_type \notin Recognized
          /\ raw[i].small_area # NoArea
          /\ \A k \in 1..Len(raw) :
                raw[k].cobenefit_type \in Recognized => raw[k].small_area # raw[i].small_area
          /\ raw[j].cobenefit_type \in Recognized
          /\ \E y \in YearLabels : raw[j].vals[y] = NaN /\ raw[i].vals[y] # NaN

\* C2 (as claimed): after cleaning no numeric cell of the table is missing,
\* whatever the spreadsheet.
C2_NoMissingCell ==
    Cleaned => \A i \in 1..Len(df) : \A y \in YearLabels : df[i].vals[y] # NaN

\* C3 (as claimed): no two rows of the table the aggregations read are equal
\* in every column.
C3_NoDuplicateRows ==
    Cleaned => \A i, j \in 1..Len(df) : i < j => df[i] # df[j]

\* C4 (as claimed): over any sequence of reruns of a session the fetch runs
\* at most once and the cleaning steps run at most once.
C4_FetchAndCleanOnce == fetches <= 1 /\ cleanings <= 1

\* returned rows are the best of the areas of one type
RankedWell(top, t, c) ==
    LET areas == AreasOfType(t, c)
        n     == Cardinality(areas)
        shown == {top[k].small_area : k \in 1..Len(top)}
    IN /\ Len(top) = IF n < 5 THEN n ELSE 5
       /\ Cardinality(shown) = Len(top)
       /\ shown \subseteq areas
       /\ \A k \in 1..Len(top) : top[k].total = CellTotal(t, top[k].small_area, c)
       /\ \A k \in 1..(Len(top) - 1) : top[k].total >= top[k + 1].total
       /\ \A a \in areas \ shown : \A k \in 1..Len(top) : top[k].total >= CellTotal(t, a, c)

\* C5: each top-5 table has min(5, distinct areas of its type) rows, holds
\* per-area sums of all year cells, is non-increasing, and no area left out
\* has a larger total than an area returned.
C5_Top5 ==
    pc \in {"map", "done"} =>
        /\ RankedWell(air_top5, df, "air_quality")
        /\ RankedWell(noise_top5, df, "noise")

\* more areas than the table keeps, unequal totals, and a tie across the cut
C5_Witness ==
    /\ pc = "done"
    /\ Cardinality(AreasOfType(df, "air_quality")) > 5
    /\ Len(air_top5) = 5
    /\ air_top5[1].total > air_top5[5].total
    /\ \E a \in AreasOfType(df, "air_quality") :
          /\ \A k \in 1..5 : air_top5[k].small_area # a
          /\ CellTotal(df, a, "air_quality") = air_top5[5].total

\* C6: a year is 'Most Comfortable' exactly when its air total is strictly
\* above the mean of the air totals and its noise total strictly below the
\* mean of the noise totals; otherwise it is 'Other'.
C6_ComfortZone ==
    pc \in {"map", "done"} =>
        LET n  == Len(df_years)
            sa == SumSeq([j \in 1..n |-> df_years[j].Air])
            sn == SumSeq([j \in 1..n |-> df_years[j].Noise])
        IN /\ n = Len(tahun_cols)
           /\ \A j \in 1..n :
                /\ df_years[j].Air = ColSum(OfType(df, "air_quality"), tahun_cols[j])
                /\ df_years[j].Noise = ColSum(OfType(df, "noise"), tahun_cols[j])
                /\ df_years[j].Comfort =
                      IF n * df_years[j].Air > sa /\ n * df_years[j].Noise < sn
                      THEN "Most Comfortable" ELSE "Other"

\* one year is 'Most Comfortable' and another, whose air total equals the
\* mean while its noise total is below the mean, is 'Other'
C6_Witness ==
    /\ pc = "done"
    /\ \E j \in 1..Len(df_years) : df_years[j].Comfort = "Most Comfortable"
    /\ \E j \in 1..Len(df_years) :
          /\ Len(df_years) * df_years[j].Air = SumSeq([k \in 1..Len(df_years) |-> df_years[k].Air])
          /\ Len(df_years) * df_years[j].Noise < SumSeq([k \in 1..Len(df_years) |-> df_years[k].Noise])
          /\ df_years[j].Comfort = "Other"

\* C7 (as claimed): with no row left after the filter every aggregation
\* output is empty.
C7_AllOutputsEmpty ==
    (pc = "done" /\ df = <<>>) =>
        /\ air_top5 = <<>> /\ noise_top5 = <<>>
        /\ area_total = <<>> /\ fig_bar = <<>>
        /\ df_years = <<>>
        /\ before_after_df = <<>>
        /\ DOMAIN corr = {}

\* C7 (amended): with no row left after the filter the run still finishes;
\* the per-area tables (top-5, combined ranking, map) are empty, while the
\* yearly table keeps one all-zero row per year labelled 'Other', the
\* before/after table keeps its four zero rows, the KPI totals are 0 and the
\* correlation matrix keeps one undefined entry per pair of years.
C7_EmptyTable ==
    /\ (pc \in {"map", "done"} /\ df = <<>>) =>
        /\ air_total = 0 /\ noise_total = 0
        /\ air_top5 = <<>> /\ noise_top5 = <<>>
        /\ area_total = <<>> /\ fig_bar = <<>>
        /\ Len(df_years) = Len(tahun_cols)
        /\ \A j \in 1..Len(df_years) :
              /\ df_years[j].Air = 0 /\ df_years[j].Noise = 0
              /\ df_years[j].Comfort = "Other"
        /\ Len(before_after_df) = 4
        /\ \A k \in 1..Len(before_after_df) : before_after_df[k].TotalValue = 0
        /\ DOMAIN corr = YearLabels
        /\ \A x \in YearLabels : \A y \in YearLabels : corr[x][y] = <<>>
    /\ (pc = "done" /\ df = <<>>) => map_df = <<>>

\* a finished run whose sheet had rows, none of a recognized type
C7_Witness == pc = "done" /\ df = <<>> /\ raw # <<>>

\* C8: a rerun with the selection of the run before it displays the same
\* aggregates; only the simulated coordinates of the map may differ.
C8_Idempotent ==
    (pc = "done" /\ runs >= 2 /\ prev.selection = widgets) =>
        /\ air_total = prev.air_total
        /\ noise_total = prev.noise_total
        /\ air_top5 = prev.air_top5
        /\ noise_top5 = prev.noise_top5
        /\ corr = prev.corr
        /\ area_total = prev.area_total
        /\ fig_bar = prev.fig_bar
        /\ df_years = prev.df_years
        /\ before_after_df = prev.before_after_df
        /\ AreaValues(map_df) = AreaValues(prev.map_df)

\* such a rerun, with a non-empty map whose coordinates came out differently
C8_Witness ==
    /\ pc = "done" /\ runs >= 2 /\ prev.selection = widgets
    /\ map_df # <<>>
    /\ map_df # prev.map_df
    /\ air_total > 0

TypeRank(c) == CHOOSE k \in 1..Len(TypeOrder) : TypeOrder[k] = c

\* rows of equal total stand in group order
InGroupOrder(top) ==
    \A i, j \in 1..Len(top) :
        (i < j /\ top[i].total = top[j].total) => top[i].small_area < top[j].small_area

\* C9 (as claimed): in the top-5 tables and the combined ranking, areas of
\* equal total appear in the order of the grouped table, and of the areas
\* tied across the cut the earlier groups are the ones kept.
C9_StableTies ==
    pc \in {"map", "done"} =>
        /\ InGroupOrder(air_top5)
        /\ InGroupOrder(noise_top5)
        /\ \A i, j \in 1..Len(fig_bar) :
              (i < j /\ fig_bar[i].total = fig_bar[j].total) =>
                  \/ fig_bar[i].small_area < fig_bar[j].small_area
                  \/ /\ fig_bar[i].small_area = fig_bar[j].small_area
                     /\ TypeRank(fig_bar[i].cobenefit_type) < TypeRank(fig_bar[j].cobenefit_type)
        /\ \A c \in Recognized :
              LET top == IF c = "air_quality" THEN air_top5 ELSE noise_top5
              IN \A a \in AreasOfType(df, c) \ {top[k].small_area : k \in 1..Len(top)} :
                    \A k \in 1..Len(top) :
                        top[k].total = CellTotal(df, a, c) => top[k].small_area < a

\* C10 (as claimed): for each type the KPI total equals the sum of the
\* yearly totals, the sum of the per-area totals and the sum of that type's
\* entries in the combined totals.
C10_AggregatesAgree ==
    pc \in {"map", "done"} =>
        LET perArea(c)  == AreaTotals(OfType(df, c))
            combined(c) == SelectSeq(area_total, LAMBDA e : e.cobenefit_type = c)
            total(s)    == SumSeq([k \in 1..Len(s) |-> s[k].total])
        IN /\ air_total = SumSeq([j \in 1..Len(df_years) |-> df_years[j].Air])
           /\ noise_total = SumSeq([j \in 1..Len(df_years) |-> df_years[j].Noise])
           /\ air_total = total(perArea("air_quality"))
           /\ noise_total = total(perArea("noise"))
           /\ air_total = total(combined("air_quality"))
           /\ noise_total = total(combined("noise"))

====
